---- MODULE Spec2Model ----
(***************************************************************************)
(* Model of the list aggregation scripts of diskominfojabar/hosts.         *)
(*                                                                         *)
(*   scripts/manager.py                  the plugin engine (run_plugins)   *)
(*   .github/workflows/unified_updater.py  the fixed-source updater        *)
(*   fetch_ip_ranges.py                  the legacy fetcher (sort_ips)     *)
(*   scripts/fetch-github-aws.py         read_file_to_set/write_set_to_file *)
(*   scripts/fetch-cloudflare-ips.py     standalone Cloudflare script       *)
(*   scripts/fetch-googlebot-ips.py      standalone Googlebot script        *)
(*                                                                         *)
(* Tokens and file lines are strings; a file is a sequence of lines.       *)
(***************************************************************************)
EXTENDS Integers, Sequences, FiniteSets, TLC

\* ------------------------------------------------------------------ bounds
MaxRuns == 2
NumPlugins == 2
MaxReadFailures == 1
MaxWriteFailures == 1
MaxSetSize == 3
MaxDirFailures == 1
MaxFetchFailures == 1
MaxUpdaterFaults == 1

\* ------------------------------------------------------- strings (Python str)
\* Printable ASCII in code point order: 32 (space) .. 95 (_), then 97 (a) .. 126 (~).
AsciiLow == " !\"#$%&'()*+,-./0123456789:;<=>?@ABCDEFGHIJKLMNOPQRSTUVWXYZ[\\]^_"

AsciiHigh == "abcdefghijklmnopqrstuvwxyz{|}~"

Chars ==
    {SubSeq(AsciiLow, i, i) : i \in 1..Len(AsciiLow)}
        \cup {SubSeq(AsciiHigh, i, i) : i \in 1..Len(AsciiHigh)}

\* ord(c) of a printable ASCII character.
OrdTable ==
    [c \in Chars |->
        IF \E i \in 1..Len(AsciiLow) : SubSeq(AsciiLow, i, i) = c
        THEN 31 + (CHOOSE i \in 1..Len(AsciiLow) : SubSeq(AsciiLow, i, i) = c)
        ELSE 96 + (CHOOSE i \in 1..Len(AsciiHigh) : SubSeq(AsciiHigh, i, i) = c)]

Ord(c) == OrdTable[c]

\* Python's a < b on str: lexicographic by code point, a proper prefix first.
RECURSIVE StrLess(_, _)
StrLess(a, b) ==
    IF b = "" THEN FALSE
    ELSE IF a = "" THEN TRUE
    ELSE IF Head(a) = Head(b) THEN StrLess(Tail(a), Tail(b))
    ELSE Ord(Head(a)) < Ord(Head(b))

IsSpace(c) == c \in {" ", "\t"}

RECURSIVE LStrip(_)
LStrip(s) == IF s # "" /\ IsSpace(Head(s)) THEN LStrip(Tail(s)) ELSE s

RECURSIVE RStrip(_)
RStrip(s) ==
    IF s # "" /\ IsSpace(SubSeq(s, Len(s), Len(s)))
    THEN RStrip(SubSeq(s, 1, Len(s) - 1))
    ELSE s

\* str.strip()
Strip(s) == RStrip(LStrip(s))

\* str.startswith(c) for a one-character c
StartsWith(s, c) == s # "" /\ Head(s) = c

\* ', '.join(names)
RECURSIVE Join(_)
Join(names) ==
    IF names = <<>> THEN ""
    ELSE IF Len(names) = 1 THEN names[1]
    ELSE names[1] \o ", " \o Join(Tail(names))

\* The elements of a sequence.
Range(seq) == {seq[i] : i \in 1..Len(seq)}

\* The orders in which iterating a set can yield its elements (list(data)).
ListOrders(data) ==
    {order \in [1..Cardinality(data) -> data] : Range(order) = data}

\* One step of a stable sort of strings: x goes before the first element
\* greater than it, so behind every element equal to it.
RECURSIVE InsertStr(_, _)
InsertStr(sorted, x) ==
    IF sorted = <<>> THEN <<x>>
    ELSE IF StrLess(x, Head(sorted)) THEN <<x>> \o sorted
    ELSE <<Head(sorted)>> \o InsertStr(Tail(sorted), x)

RECURSIVE SortStrFrom(_, _)
SortStrFrom(list, acc) ==
    IF list = <<>> THEN acc ELSE SortStrFrom(Tail(list), InsertStr(acc, Head(list)))

\* sorted(list) with list left as it is.
SortedStr_Unsorted(list) == list

\* sorted(list) on a list of strings (a stable sort).
SortedStr(list) == SortStrFrom(list, <<>>)

\* ------------------------------------- ipaddress.ip_network(x, strict=False)
\* str.split(sep) for a one-character sep.
RECURSIVE SplitFrom(_, _, _)
SplitFrom(s, sep, cur) ==
    IF s = "" THEN <<cur>>
    ELSE IF Head(s) = sep THEN <<cur>> \o SplitFrom(Tail(s), sep, "")
    ELSE SplitFrom(Tail(s), sep, cur \o Head(s))

Split(s, sep) == SplitFrom(s, sep, "")

HexDigits == "0123456789abcdef"

IsDigit(c) == Ord(c) >= 48 /\ Ord(c) <= 57

IsHex(c) == IsDigit(c) \/ (Ord(c) >= 97 /\ Ord(c) <= 102) \/ (Ord(c) >= 65 /\ Ord(c) <= 70)

HexVal(c) ==
    IF IsDigit(c) THEN Ord(c) - 48
    ELSE IF Ord(c) >= 97 THEN Ord(c) - 87
    ELSE Ord(c) - 55

AllDigits(s) == \A i \in 1..Len(s) : IsDigit(SubSeq(s, i, i))

AllHex(s) == \A i \in 1..Len(s) : IsHex(SubSeq(s, i, i))

\* int(s, base) of a string of digits already validated.
RECURSIVE IntOf(_, _, _)
IntOf(s, base, acc) ==
    IF s = "" THEN acc ELSE IntOf(Tail(s), base, acc * base + HexVal(Head(s)))

\* A decimal field of 1..3 digits, or -1.
DecField(s) ==
    IF Len(s) >= 1 /\ Len(s) <= 3 /\ AllDigits(s) THEN IntOf(s, 10, 0) ELSE -1

\* A hexadecimal group of 1..4 digits, or -1.
HexField(s) ==
    IF Len(s) >= 1 /\ Len(s) <= 4 /\ AllHex(s) THEN IntOf(s, 16, 0) ELSE -1

RECURSIVE Pow2(_)
Pow2(n) == IF n = 0 THEN 1 ELSE 2 * Pow2(n - 1)

\* The groups of an address (width bits each) under a prefix of len bits: the
\* host bits are cleared, as strict=False does.
MaskGroups(groups, width, len) ==
    [i \in 1..Len(groups) |->
        LET left == len - width * (i - 1)
            bits == IF left < 0 THEN 0 ELSE IF left > width THEN width ELSE left
        IN  (groups[i] \div Pow2(width - bits)) * Pow2(width - bits)]

NoNetwork == [version |-> 0, addr |-> <<>>, prefixlen |-> 0]

\* The four octets of a dotted quad, or <<>>.
V4Groups(addr) ==
    LET parts == Split(addr, ".")
    IN  IF Len(parts) = 4 /\ \A i \in 1..4 : DecField(parts[i]) \in 0..255
        THEN [i \in 1..4 |-> DecField(parts[i])]
        ELSE <<>>

Zeros(n) == [i \in 1..n |-> 0]

\* The eight groups of an IPv6 address (one "::" allowed), or <<>>.
V6Groups(addr) ==
    LET parts == Split(addr, ":")
        n == Len(parts)
        skips == {i \in 2..(n - 1) : parts[i] = ""}
    IN  IF n < 3 \/ n > 9 \/ Cardinality(skips) > 1 THEN <<>>
        ELSE IF skips = {}
        THEN IF n = 8 /\ \A i \in 1..8 : HexField(parts[i]) >= 0
             THEN [i \in 1..8 |-> HexField(parts[i])]
             ELSE <<>>
        ELSE LET skip == CHOOSE i \in skips : TRUE
                 hi == IF parts[1] = "" THEN skip - 2 ELSE skip - 1
                 lo == IF parts[n] = "" THEN n - skip - 1 ELSE n - skip
                 hiParts == SubSeq(parts, 1, hi)
                 loParts == SubSeq(parts, n - lo + 1, n)
             IN  IF (parts[1] = "" /\ hi # 0) \/ (parts[n] = "" /\ lo # 0)
                    \/ hi + lo > 7
                    \/ (\E i \in 1..hi : HexField(hiParts[i]) < 0)
                    \/ (\E j \in 1..lo : HexField(loParts[j]) < 0)
                 THEN <<>>
                 ELSE ([i \in 1..hi |-> HexField(hiParts[i])] \o Zeros(8 - hi - lo))
                        \o [i \in 1..lo |-> HexField(loParts[i])]

\* ipaddress.ip_network(token, strict=False): version, network address and
\* prefix length, or NoNetwork where Python raises ValueError. (The netmask
\* spelling "a.b.c.d/e.f.g.h" and embedded IPv4 tails are not modelled; no
\* token of the model uses them.)
ip_network(token) ==
    LET parts == Split(token, "/")
        addr == parts[1]
        v4 == V4Groups(addr)
        v6 == V6Groups(addr)
    IN  IF Len(parts) > 2 THEN NoNetwork
        ELSE IF v4 # <<>>
        THEN LET len == IF Len(parts) = 1 THEN 32 ELSE DecField(parts[2])
             IN  IF len \in 0..32
                 THEN [version |-> 4, addr |-> MaskGroups(v4, 8, len), prefixlen |-> len]
                 ELSE NoNetwork
        ELSE IF v6 # <<>>
        THEN LET len == IF Len(parts) = 1 THEN 128 ELSE DecField(parts[2])
             IN  IF len \in 0..128
                 THEN [version |-> 6, addr |-> MaskGroups(v6, 16, len), prefixlen |-> len]
                 ELSE NoNetwork
        ELSE NoNetwork

\* a < b on sequences of integers of one length.
RECURSIVE SeqLess(_, _)
SeqLess(a, b) ==
    IF a = <<>> \/ b = <<>> THEN FALSE
    ELSE IF Head(a) = Head(b) THEN SeqLess(Tail(a), Tail(b))
    ELSE Head(a) < Head(b)

\* _BaseNetwork.__lt__ for two networks of one version: by network address,
\* then by netmask.
NetLess(m, n) ==
    \/ SeqLess(m.addr, n.addr)
    \/ m.addr = n.addr /\ m.prefixlen < n.prefixlen

\* ------------------------------------------------------ scripts/manager.py
\* FILES_MAP, in the order of the dict literal (its iteration order).
Categories == <<"drop_ip", "pass_ip", "whitelist_domain", "blacklist_domain">>

KnownCategories == Range(Categories)

FILES_MAP ==
    [key \in KnownCategories |->
        CASE key = "drop_ip" -> "drop.txt"
          [] key = "pass_ip" -> "pass.txt"
          [] key = "whitelist_domain" -> "whitelist-domain.txt"
          [] key = "blacklist_domain" -> "blacklist-domain.txt"]

FileNames == {FILES_MAP[key] : key \in KnownCategories}

\* A file that does not exist, and a file holding the given lines.
Absent == [exists |-> FALSE, lines |-> <<>>]

FileOf(lines) == [exists |-> TRUE, lines |-> lines]

\* The modules found in sources/ (os.listdir), by module name.
PluginNames == <<"abuseipdb", "cloudflare", "github", "google">>

Plugins == {PluginNames[i] : i \in 1..NumPlugins}

\* Keys a plugin's result may carry: the known categories and one unknown name.
PluginKeys == KnownCategories \cup {"bogus_ip"}

\* The non-empty dicts (key -> token set) a plugin's fetch() returns here.
PluginDicts ==
    {[k \in {"pass_ip"} |-> {"1.1.1.1"}],
     [k \in {"pass_ip"} |-> {"1.1.1.1/32"}],
     [k \in {"pass_ip"} |-> {"1.1.1.0/24"}],
     [k \in {"whitelist_domain"} |-> {"github.com"}],
     [k \in {"drop_ip"} |-> {}],
     [k \in {"bogus_ip"} |-> {"6.6.6.6"}],
     [k \in {"drop_ip", "bogus_ip"} |-> {"6.6.6.6"}]}

\* What loading and calling one plugin module can come to: the module or its
\* fetch() raises, the module has no fetch(), fetch() returns a falsy value
\* (None or {}), or fetch() returns a non-empty dict of key -> token set.
PluginResults ==
    {[kind |-> "raise", map |-> <<>>],
     [kind |-> "nofetch", map |-> <<>>],
     [kind |-> "falsy", map |-> <<>>]}
    \cup {[kind |-> "dict", map |-> d] : d \in PluginDicts}

NotRun == [kind |-> "notrun", map |-> <<>>]

VARIABLES
    files,            \* file name -> Absent or FileOf(lines)
    aggregated_data,  \* run_plugins: key -> set of tokens
    active_sources,   \* run_plugins: list of module names
    pending,          \* modules of os.listdir not yet visited by the loop
    saveIdx,          \* position of the final loop over FILES_MAP.items()
    pc,               \* "idle", "plugins", "save", "done", "crashed", "nodir"
    run,              \* number of runs started
    loaded,           \* what load_existing_data returned at the start of this run
    fetched,          \* this run: module name -> the result of its load and fetch()
    wrote,            \* this run: keys whose save_data call returned
    readFailures,     \* read errors the environment has raised so far
    writeFailures,    \* write errors the environment has raised so far
    dirExists,        \* os.path.exists(OUTPUT_DIR)
    dirFailures,      \* os.makedirs errors the environment has raised so far
    ioSet,            \* one writer and one loader in isolation: the set written
    ioWriter,         \* the writer applied
    ioFile,           \* the file after the write
    ioFile2,          \* the file after a second write of the same set
    ioLoader,         \* the loader applied
    ioRead,           \* what the loader returned
    ioPc,             \* "off", "start", "written", "rewritten", "loaded"
    upstream,         \* url -> "unknown", "up" (the request returns) or "down" (it raises)
    uPc,              \* unified_updater.main: "off", "idle", the fetch to come, "save", "end"
    drop_ips,         \* main: local set
    pass_ips,         \* main: local set
    whitelist_domains, \* main: local set
    blacklist_domains, \* main: local set
    saved,            \* main: number of save_to_file calls made in this run
    script,           \* the standalone script run last: "off", "none", "cloudflare", "googlebot"
    outFiles,         \* cloudflare-ips.txt and googlebot.txt
    ip_ranges,        \* __main__ of the script run last: ip_ranges
    exit_code         \* exit status of the script run last (-1: none has run)

runVars ==
    <<files, aggregated_data, active_sources, pending, saveIdx, pc, run, loaded,
      fetched, wrote, readFailures, writeFailures, dirExists, dirFailures>>

ioVars == <<ioSet, ioWriter, ioFile, ioFile2, ioLoader, ioRead, ioPc>>

\* The locals of run_plugins, which the other programs do not have.
mgrVars ==
    <<aggregated_data, active_sources, pending, saveIdx, pc, loaded, fetched, wrote>>

updVars ==
    <<upstream, uPc, drop_ips, pass_ips, whitelist_domains, blacklist_domains, saved>>

scriptVars == <<script, outFiles, ip_ranges, exit_code>>

vars == <<runVars, ioVars, updVars, scriptVars>>

\* The lines a loader keeps: stripped, non-empty, not starting with ';' or '#'.
KeptTokens(lines) ==
    {Strip(lines[i]) : i \in 1..Len(lines)}
        \ {t \in {Strip(lines[i]) : i \in 1..Len(lines)} :
              t = "" \/ StartsWith(t, ";") \/ StartsWith(t, "#")}

\* load_existing_data(filepath): the tokens of the lines read. k is the number
\* of lines read before the read raised (all of them when it did not); the
\* except clause keeps what was added so far.
load_existing_data(file, k) ==
    IF file.exists THEN KeptTokens(SubSeq(file.lines, 1, k)) ELSE {}

\* datetime.now(wib).strftime('%Y-%m-%d %H:%M WIB'), one clock value per run.
Timestamp(r) == "2026-01-0" \o ToString(r) \o " 07:00 WIB"

\* save_data(filepath, data, source_names): the lines written, data being
\* list(data) in the order the set iterates.
save_data(data, source_names, timestamp) ==
    <<"; Updated at: " \o timestamp,
      "; Sources included: " \o Join(source_names),
      "; Total Entries: " \o ToString(Len(SortedStr(data))),
      "; --------------------------------------------">>
        \o SortedStr(data)

\* Line 86, `if result:`: only a non-empty dict is truthy.
IsTruthy_AnyReturn(r) == r.kind \in {"dict", "falsy"}

IsTruthy(r) == r.kind = "dict"

\* Lines 77-97: the try/except inside the loop body; whatever the module did,
\* the loop goes on with the remaining directory entries.
NextPending_RaiseEndsLoop(pend, p, r) == IF r.kind = "raise" THEN {} ELSE pend \ {p}

\* Lines 70-97 with the loop left after the first directory entry.
NextPending_StopsAfterFirst(pend, p, r) == {}

NextPending(pend, p, r) == pend \ {p}

\* Lines 89-91 with update() replaced by assignment.
MergeResult_Assign(agg, result) ==
    [key \in DOMAIN agg |->
        IF key \in DOMAIN result /\ result[key] # {} THEN result[key] ELSE agg[key]]

\* Lines 89-91 keeping only the baskets the result names.
MergeResult_DropsUntouched(agg, result) ==
    [key \in DOMAIN agg |->
        IF key \in DOMAIN result /\ result[key] # {}
        THEN agg[key] \cup result[key]
        ELSE {}]

\* Lines 89-91 with a key that is not a basket ending the merge of the result.
MergeResult_UnknownKeyAborts(agg, result) ==
    IF DOMAIN result \subseteq DOMAIN agg
    THEN [key \in DOMAIN agg |->
             IF key \in DOMAIN result /\ result[key] # {}
             THEN agg[key] \cup result[key]
             ELSE agg[key]]
    ELSE agg

\* Lines 89-91 with a basket that already holds tokens left as it is.
MergeResult_KeepFirst(agg, result) ==
    [key \in DOMAIN agg |->
        IF key \in DOMAIN result /\ result[key] # {} /\ agg[key] = {}
        THEN result[key]
        ELSE agg[key]]

\* Lines 89-91: merge one plugin result into the baskets.
MergeResult(agg, result) ==
    [key \in DOMAIN agg |->
        IF key \in DOMAIN result /\ result[key] # {}
        THEN agg[key] \cup result[key]
        ELSE agg[key]]

RunInit ==
    /\ files = [f \in FileNames |-> Absent]
    /\ aggregated_data = [key \in KnownCategories |-> {}]
    /\ active_sources = <<>>
    /\ pending = {}
    /\ saveIdx = 0
    /\ pc = "idle"
    /\ run = 0
    /\ loaded = [key \in KnownCategories |-> {}]
    /\ fetched = [p \in Plugins |-> NotRun]
    /\ wrote = {}
    /\ readFailures = 0
    /\ writeFailures = 0
    /\ dirExists = FALSE
    /\ dirFailures = 0

\* unified_updater.py URLS['google'] (fetch-googlebot-ips.py URLS), by file name.
GoogleUrls ==
    <<"googlebot.json", "special-crawlers.json", "user-triggered-fetchers.json",
      "user-triggered-fetchers-google.json">>

\* The keys of URLS, the four Google URLs standing for 'google'.
AllUrls ==
    Range(GoogleUrls) \cup {"cloudflare_v4", "cloudflare_v6", "github", "aws", "abuseipdb"}

NoRequests == [url \in AllUrls |-> "unknown"]

ScriptFiles == {"cloudflare-ips.txt", "googlebot.txt"}

\* unified_updater.py is not running.
UpdOff ==
    /\ upstream = NoRequests
    /\ uPc = "off"
    /\ drop_ips = {}
    /\ pass_ips = {}
    /\ whitelist_domains = {}
    /\ blacklist_domains = {}
    /\ saved = 0

\* No standalone script is run.
ScriptOff ==
    /\ script = "off"
    /\ outFiles = [f \in ScriptFiles |-> Absent]
    /\ ip_ranges = <<>>
    /\ exit_code = -1

IoOff ==
    /\ ioSet = {}
    /\ ioWriter = "none"
    /\ ioFile = Absent
    /\ ioFile2 = Absent
    /\ ioLoader = "none"
    /\ ioRead = {}
    /\ ioPc = "off"

Init == RunInit /\ IoOff /\ UpdOff /\ ScriptOff

\* The length of the longest file on disk.
LongestFile ==
    CHOOSE n \in {Len(files[f].lines) : f \in FileNames} :
        \A f \in FileNames : Len(files[f].lines) <= n

\* The positions at which no process is running: a new one may start.
Stopped == pc \in {"idle", "done", "crashed", "nodir"}

\* The exit status of the process (`python manager.py`): 0 when run_plugins
\* returned, 1 when an exception left it, -1 while it runs or before any run.
ExitCode ==
    CASE pc = "done" -> 0
      [] pc \in {"crashed", "nodir"} -> 1
      [] OTHER -> -1

\* run_plugins, line 55, ensure_dir(OUTPUT_DIR) where os.makedirs raises:
\* ensure_dir has no try/except, the exception leaves run_plugins before
\* anything is loaded.
EnsureDirFail ==
    /\ Stopped
    /\ run < MaxRuns
    /\ ~dirExists
    /\ dirFailures < MaxDirFailures
    /\ dirFailures' = dirFailures + 1
    /\ run' = run + 1
    /\ pc' = "nodir"
    /\ aggregated_data' = [key \in KnownCategories |-> {}]
    /\ loaded' = [key \in KnownCategories |-> {}]
    /\ active_sources' = <<>>
    /\ pending' = {}
    /\ fetched' = [p \in Plugins |-> NotRun]
    /\ wrote' = {}
    /\ saveIdx' = 0
    /\ UNCHANGED <<files, readFailures, writeFailures, dirExists>>
    /\ UNCHANGED <<ioVars, updVars, scriptVars>>

\* run_plugins, lines 55-67: ensure_dir (the directory exists or os.makedirs
\* creates it), then the four load_existing_data calls; k[key] is the number
\* of lines of the key's file read before the read raised (all of them when
\* it did not).
StartRun ==
    /\ Stopped
    /\ run < MaxRuns
    /\ \E k \in [KnownCategories -> 0..LongestFile] :
          /\ \A key \in KnownCategories : k[key] <= Len(files[FILES_MAP[key]].lines)
          /\ LET failed == {key \in KnownCategories :
                              k[key] < Len(files[FILES_MAP[key]].lines)}
             IN  /\ readFailures + Cardinality(failed) <= MaxReadFailures
                 /\ readFailures' = readFailures + Cardinality(failed)
          /\ aggregated_data' =
                [key \in KnownCategories |-> load_existing_data(files[FILES_MAP[key]], k[key])]
    /\ loaded' = aggregated_data'
    /\ active_sources' = <<>>
    /\ pending' = Plugins
    /\ fetched' = [p \in Plugins |-> NotRun]
    /\ wrote' = {}
    /\ saveIdx' = IF Plugins = {} THEN 1 ELSE 0
    /\ pc' = IF Plugins = {} THEN "save" ELSE "plugins"
    /\ run' = run + 1
    /\ dirExists' = TRUE
    /\ UNCHANGED <<files, writeFailures, dirFailures>>
    /\ UNCHANGED <<ioVars, updVars, scriptVars>>

\* One iteration of the loop over os.listdir(SOURCES_DIR), lines 70-97.
RunPlugin ==
    /\ pc = "plugins"
    /\ \E p \in pending, r \in PluginResults :
          /\ fetched' = [fetched EXCEPT ![p] = r]
          /\ pending' = NextPending(pending, p, r)
          /\ IF IsTruthy(r)
             THEN /\ active_sources' = Append(active_sources, p)
                  /\ aggregated_data' = MergeResult(aggregated_data, r.map)
             ELSE UNCHANGED <<active_sources, aggregated_data>>
    /\ pc' = IF pending' = {} THEN "save" ELSE "plugins"
    /\ saveIdx' = IF pending' = {} THEN 1 ELSE 0
    /\ UNCHANGED <<files, run, loaded, wrote, readFailures, writeFailures,
                   dirExists, dirFailures>>
    /\ UNCHANGED <<ioVars, updVars, scriptVars>>

\* One iteration of the loop over FILES_MAP.items(), lines 101-102: save_data returns.
SaveOk ==
    /\ pc = "save"
    /\ LET key == Categories[saveIdx]
       IN  /\ \E order \in ListOrders(aggregated_data[key]) :
                 files' = [files EXCEPT ![FILES_MAP[key]] =
                              FileOf(save_data(order, active_sources, Timestamp(run)))]
           /\ wrote' = wrote \cup {key}
    /\ saveIdx' = IF saveIdx = Len(Categories) THEN 0 ELSE saveIdx + 1
    /\ pc' = IF saveIdx = Len(Categories) THEN "done" ELSE "save"
    /\ UNCHANGED <<aggregated_data, active_sources, pending, run, loaded, fetched,
                   readFailures, writeFailures, dirExists, dirFailures>>
    /\ UNCHANGED <<ioVars, updVars, scriptVars>>

\* save_data raises (open or write fails): the file is left as it was, or
\* holds the first n lines written; the exception leaves run_plugins.
SaveFail ==
    /\ pc = "save"
    /\ writeFailures < MaxWriteFailures
    /\ \E order \in ListOrders(aggregated_data[Categories[saveIdx]]) :
          LET key == Categories[saveIdx]
              new == save_data(order, active_sources, Timestamp(run))
          IN  \/ UNCHANGED files
              \/ \E n \in 0..(Len(new) - 1) :
                    files' = [files EXCEPT ![FILES_MAP[key]] = FileOf(SubSeq(new, 1, n))]
    /\ writeFailures' = writeFailures + 1
    /\ saveIdx' = 0
    /\ pc' = "crashed"
    /\ UNCHANGED <<aggregated_data, active_sources, pending, run, loaded, fetched,
                   wrote, readFailures, dirExists, dirFailures>>
    /\ UNCHANGED <<ioVars, updVars, scriptVars>>

Next == EnsureDirFail \/ StartRun \/ RunPlugin \/ SaveOk \/ SaveFail

Spec == Init /\ [][Next]_vars

\* -------------------------------------------- the writers and the loaders
\* unified_updater.py save_to_file(filename, data_set, header_info): the lines
\* written, data being list(data_set) in the order the set iterates.
save_to_file(basename, data, header_info, timestamp) ==
    <<"; " \o basename \o " - Updated at " \o timestamp,
      "; " \o header_info,
      "; Total Entries: " \o ToString(Len(SortedStr(data))),
      "; ----------------------------------------">>
        \o SortedStr(data)

IsV4(ip) == ip_network(ip).version = 4

IsV6(ip) == ip_network(ip).version = 6

IsOther(ip) == ip_network(ip) = NoNetwork

\* One step of a stable sort by key=ip_network: x goes before the first
\* element whose network is greater, so behind every element of equal key.
RECURSIVE InsertNet(_, _)
InsertNet(sorted, x) ==
    IF sorted = <<>> THEN <<x>>
    ELSE IF NetLess(ip_network(x), ip_network(Head(sorted))) THEN <<x>> \o sorted
    ELSE <<Head(sorted)>> \o InsertNet(Tail(sorted), x)

RECURSIVE SortNetFrom(_, _)
SortNetFrom(list, acc) ==
    IF list = <<>> THEN acc ELSE SortNetFrom(Tail(list), InsertNet(acc, Head(list)))

\* sorted(list, key=lambda x: ipaddress.ip_network(x, strict=False))
SortedNet(list) == SortNetFrom(list, <<>>)

\* sort_ips with the three lists joined without sorting them.
sort_ips_Unsorted(ips) ==
    (SelectSeq(ips, IsV4) \o SelectSeq(ips, IsV6)) \o SelectSeq(ips, IsOther)

\* fetch_ip_ranges.py sort_ips(ips), ips in the order the set iterates.
sort_ips(ips) ==
    (SortedNet(SelectSeq(ips, IsV4)) \o SortedNet(SelectSeq(ips, IsV6)))
        \o SortedStr(SelectSeq(ips, IsOther))

\* fetch_ip_ranges.py write_ips_to_file(file_path, ips, header_comment) with a
\* header comment, as main() calls it: the last header line ends in "\n\n".
write_ips_to_file(ips, header_comment, date) ==
    <<"# " \o header_comment,
      "# Total entries: " \o ToString(Len(sort_ips(ips))),
      "# Last updated: " \o date,
      "">>
        \o sort_ips(ips)

\* fetch-github-aws.py write_set_to_file(filename, data_set)
write_set_to_file(data) == SortedStr(data)

\* The lines read_existing_ips and read_file_to_set keep: stripped,
\* non-empty, not starting with '#'.
KeptNoHash(lines) ==
    {Strip(lines[i]) : i \in 1..Len(lines)}
        \ {t \in {Strip(lines[i]) : i \in 1..Len(lines)} : t = "" \/ StartsWith(t, "#")}

\* fetch_ip_ranges.py read_existing_ips(file_path)
read_existing_ips(file) == IF file.exists THEN KeptNoHash(file.lines) ELSE {}

\* fetch-github-aws.py read_file_to_set(filename)
read_file_to_set(file) == IF file.exists THEN KeptNoHash(file.lines) ELSE {}

Writers == {"save_data", "save_to_file", "write_ips_to_file", "write_set_to_file"}

Loaders == {"load_existing_data", "read_existing_ips", "read_file_to_set"}

\* The lines a writer writes for the list data at clock value r.
WriterLines(writer, data, r) ==
    CASE writer = "save_data" -> save_data(data, <<"abuseipdb">>, Timestamp(r))
      [] writer = "save_to_file" ->
            save_to_file("pass.txt", data, "Source: Google, Cloudflare, GitHub, AWS",
                         Timestamp(r))
      [] writer = "write_ips_to_file" ->
            write_ips_to_file(data, "Whitelist - Google, Cloudflare, GitHub, AWS IP Ranges",
                              Timestamp(r))
      [] writer = "write_set_to_file" -> write_set_to_file(data)

\* The number of lines a writer puts before the tokens.
HeaderLen(writer) == IF writer = "write_set_to_file" THEN 0 ELSE 4

\* The token lines of a file a writer wrote.
TokenLines(writer, file) == SubSeq(file.lines, HeaderLen(writer) + 1, Len(file.lines))

\* What a loader returns for a file read without error.
LoaderTokens(loader, file) ==
    CASE loader = "load_existing_data" -> load_existing_data(file, Len(file.lines))
      [] loader = "read_existing_ips" -> read_existing_ips(file)
      [] loader = "read_file_to_set" -> read_file_to_set(file)

\* Tokens the sets written are drawn from: what upstream lines and JSON fields
\* can carry, as a plugin or fetcher passes them on.
IoTokens ==
    {"9.0.0.0/8", "10.0.0.0/8", "10.0.0.0/16", "1.1.1.1", "1.1.1.1/32",
     "2001:db8::/32", "github.com", "bad token", "#x", ";y", " 8.8.8.8"}

IoInit ==
    /\ RunInit
    /\ UpdOff
    /\ ScriptOff
    /\ ioSet \in {S \in SUBSET IoTokens : Cardinality(S) <= MaxSetSize}
    /\ ioWriter = "none"
    /\ ioFile = Absent
    /\ ioFile2 = Absent
    /\ ioLoader = "none"
    /\ ioRead = {}
    /\ ioPc = "start"

\* A writer writes ioSet to a file.
IoWrite ==
    /\ ioPc = "start"
    /\ \E writer \in Writers, order \in ListOrders(ioSet) :
          /\ ioWriter' = writer
          /\ ioFile' = FileOf(WriterLines(writer, order, 1))
    /\ ioPc' = "written"
    /\ UNCHANGED <<ioSet, ioFile2, ioLoader, ioRead>>
    /\ UNCHANGED <<runVars, updVars, scriptVars>>

\* The same writer writes ioSet a second time, in another process.
IoRewrite ==
    /\ ioPc = "written"
    /\ \E order \in ListOrders(ioSet) :
          ioFile2' = FileOf(WriterLines(ioWriter, order, 2))
    /\ ioPc' = "rewritten"
    /\ UNCHANGED <<ioSet, ioWriter, ioFile, ioLoader, ioRead>>
    /\ UNCHANGED <<runVars, updVars, scriptVars>>

\* A loader reads the file (absent when nothing was written yet).
IoLoad ==
    /\ ioPc \in {"start", "written"}
    /\ \E loader \in Loaders :
          /\ ioLoader' = loader
          /\ ioRead' = LoaderTokens(loader, ioFile)
    /\ ioPc' = "loaded"
    /\ UNCHANGED <<ioSet, ioWriter, ioFile, ioFile2>>
    /\ UNCHANGED <<runVars, updVars, scriptVars>>

IoNext == IoWrite \/ IoRewrite \/ IoLoad

SpecIO == IoInit /\ [][IoNext]_vars

\* ----------------------------------------------------------- manager.py claims
\* The tokens a complete load of the file returns.
FileTokens(file) == load_existing_data(file, Len(file.lines))

\* What the plugins run so far in this run returned for a known key.
Contributions(key) ==
    UNION {fetched[p].map[key] : p \in {q \in Plugins :
              fetched[q].kind = "dict" /\ key \in DOMAIN fetched[q].map}}

PluginsFinished == pc \in {"save", "done", "crashed"}

\* C1: across runs with plugin successes, plugin failures and artifact read
\* errors (no write error), a token held by a category's artifact is still
\* held by it after every later step: no step removes a token from a file.
C1_NeverRemoved ==
    [][writeFailures' = 0 =>
          \A f \in FileNames : FileTokens(files[f]) \subseteq FileTokens(files'[f])]_vars

\* C2: when a plugin raised, every other plugin has still been called once the
\* loop is over, every token the others returned for a known category is in
\* that category's basket, and a run that wrote without I/O error has written
\* every category with those tokens in its file.
C2_PluginIsolation ==
    (\E p \in Plugins : fetched[p].kind = "raise") =>
        /\ PluginsFinished => \A q \in Plugins : fetched[q] # NotRun
        /\ \A key \in KnownCategories : Contributions(key) \subseteq aggregated_data[key]
        /\ pc = "done" =>
              /\ wrote = KnownCategories
              /\ \A key \in KnownCategories :
                    /\ files[FILES_MAP[key]].exists
                    /\ Contributions(key) \subseteq Range(files[FILES_MAP[key]].lines)

\* C2 witness: a finished run in which one plugin raised and another one's
\* token reached the written file.
C2_Witness ==
    /\ pc = "done"
    /\ \E p \in Plugins : fetched[p].kind = "raise"
    /\ \E key \in KnownCategories :
          /\ Contributions(key) # {}
          /\ Contributions(key) \subseteq FileTokens(files[FILES_MAP[key]])

\* Two tokens that denote one IP network.
SameNetwork(a, b) == ip_network(a) # NoNetwork /\ ip_network(a) = ip_network(b)

\* C3 (as stated): new tokens are canonicalized before the union, so no basket
\* holds two tokens of one network, and {"1.1.1.1"} merged into a basket
\* holding "1.1.1.0/24" gives {"1.1.1.0/24", "1.1.1.1/32"}.
C3_Canonicalized ==
    PluginsFinished =>
        /\ \A key \in KnownCategories :
              \A a, b \in aggregated_data[key] : SameNetwork(a, b) => a = b
        /\ (loaded["pass_ip"] = {"1.1.1.0/24"} /\ Contributions("pass_ip") = {"1.1.1.1"})
              => aggregated_data["pass_ip"] = {"1.1.1.0/24", "1.1.1.1/32"}

\* C3 (amended): merge is the union of the token strings as returned, with no
\* canonicalization: each basket is the loaded set plus everything returned
\* for its key, and {"1.1.1.1"} merged into a basket holding "1.1.1.0/24"
\* gives {"1.1.1.0/24", "1.1.1.1"}.
C3_PlainUnion ==
    PluginsFinished =>
        /\ \A key \in KnownCategories :
              aggregated_data[key] = loaded[key] \cup Contributions(key)
        /\ (loaded["pass_ip"] = {"1.1.1.0/24"} /\ Contributions("pass_ip") = {"1.1.1.1"})
              => aggregated_data["pass_ip"] = {"1.1.1.0/24", "1.1.1.1"}

\* C3 witness: the scenario's merge has happened.
C3_Witness ==
    /\ PluginsFinished
    /\ loaded["pass_ip"] = {"1.1.1.0/24"}
    /\ Contributions("pass_ip") = {"1.1.1.1"}
    /\ aggregated_data["pass_ip"] = {"1.1.1.0/24", "1.1.1.1"}

\* C8: when the write of one category fails, every other category is still
\* written in that run.
C8_WriteFailureIsolated ==
    pc = "crashed" => Cardinality(KnownCategories \ wrote) <= 1

\* C9: a run that reaches its end has written every known category in this
\* run (each file carries this run's header), and a category no plugin
\* contributed to is written with exactly its loaded tokens.
C9_EveryCategoryWritten ==
    pc = "done" =>
        /\ wrote = KnownCategories
        /\ \A key \in KnownCategories :
              LET file == files[FILES_MAP[key]]
              IN  /\ file.exists
                  /\ Len(file.lines) >= 1
                  /\ file.lines[1] = "; Updated at: " \o Timestamp(run)
                  /\ Contributions(key) = {} =>
                        \A order \in ListOrders(loaded[key]) :
                            file = FileOf(save_data(order, active_sources, Timestamp(run)))

\* C9 witness: a second run in which no plugin returned anything has ended,
\* with a category that had tokens on disk.
C9_Witness ==
    /\ pc = "done"
    /\ run = 2
    /\ \A p \in Plugins : fetched[p].kind \in {"raise", "falsy", "nofetch"}
    /\ loaded["pass_ip"] # {}
    /\ FileTokens(files["pass.txt"]) = loaded["pass_ip"]

\* The provenance line of a written file.
SourcesLine(names) == "; Sources included: " \o Join(names)

\* C10 (as stated): a plugin is listed as a source iff its fetch() returned at
\* least one non-empty known category.
C10_ListedIffContributed ==
    PluginsFinished =>
        \A p \in Plugins :
            p \in Range(active_sources) <=>
                /\ fetched[p].kind = "dict"
                /\ \E key \in DOMAIN fetched[p].map \cap KnownCategories :
                      fetched[p].map[key] # {}

\* C10 (amended): a plugin is listed as a source iff its fetch() returned a
\* non-empty dict, whatever its keys and values; a plugin that raised, has no
\* fetch() or returned None or {} is not listed; every file written carries
\* exactly that list.
C10_ListedIffTruthy ==
    /\ \A p \in Plugins : p \in Range(active_sources) <=> fetched[p].kind = "dict"
    /\ \A key \in wrote :
          /\ Len(files[FILES_MAP[key]].lines) >= 2
          /\ files[FILES_MAP[key]].lines[2] = SourcesLine(active_sources)

\* C10 witness: a file was written in a run where one plugin returned only an
\* empty set and another raised.
C10_Witness ==
    /\ wrote # {}
    /\ \E p \in Plugins :
          /\ fetched[p].kind = "dict"
          /\ \A key \in DOMAIN fetched[p].map : fetched[p].map[key] = {}
          /\ p \in Range(active_sources)
    /\ \E p \in Plugins : fetched[p].kind = "raise"

\* ------------------------------------------------- writer and loader claims
HasSpace(t) == \E i \in 1..Len(t) : IsSpace(SubSeq(t, i, i))

\* The permissive hostname shape: two or more non-empty labels joined by '.',
\* no whitespace.
IsDomainShape(t) ==
    /\ ~HasSpace(t)
    /\ Len(Split(t, ".")) >= 2
    /\ \A i \in 1..Len(Split(t, ".")) : Split(t, ".")[i] # ""

\* The four kinds in their write order: IPv4 prefix, IPv6 prefix, domain, opaque.
KindRank(t) ==
    IF IsV4(t) THEN 1 ELSE IF IsV6(t) THEN 2 ELSE IF IsDomainShape(t) THEN 3 ELSE 4

\* a has to come before b under the type-partitioned ordering rule.
PartitionedBefore(a, b) ==
    \/ KindRank(a) < KindRank(b)
    \/ /\ KindRank(a) = KindRank(b)
       /\ IF KindRank(a) <= 2 THEN NetLess(ip_network(a), ip_network(b)) ELSE StrLess(a, b)

Written == ioPc \in {"written", "rewritten", "loaded"} /\ ioFile.exists

\* C4 (as stated): every writer emits IPv4 prefixes by network address and
\* prefix length, then IPv6 prefixes the same way, then domains, then opaque
\* tokens, the last two lexicographically.
C4_TypePartitioned ==
    Written =>
        LET lines == TokenLines(ioWriter, ioFile)
        IN  \A i, j \in 1..Len(lines) : i < j => ~PartitionedBefore(lines[j], lines[i])

\* IPv4, IPv6, everything else: the three lists of sort_ips.
ListRank(t) == IF IsV4(t) THEN 1 ELSE IF IsV6(t) THEN 2 ELSE 3

\* C4 (amended): save_data, save_to_file and write_set_to_file emit the tokens
\* in ascending string order whatever their kind; write_ips_to_file emits the
\* IPv4 networks by network address then prefix length, then the IPv6
\* networks the same way, then every other token in ascending string order.
\* Each writer emits every token of the set once.
C4_WriterOrders ==
    Written =>
        LET lines == TokenLines(ioWriter, ioFile)
        IN  /\ Range(lines) = ioSet
            /\ Len(lines) = Cardinality(ioSet)
            /\ ioWriter # "write_ips_to_file" =>
                  \A i, j \in 1..Len(lines) : i < j => StrLess(lines[i], lines[j])
            /\ ioWriter = "write_ips_to_file" =>
                  \A i, j \in 1..Len(lines) : i < j =>
                      /\ ListRank(lines[i]) <= ListRank(lines[j])
                      /\ (ListRank(lines[i]) = ListRank(lines[j]) /\ ListRank(lines[i]) <= 2)
                            => ~NetLess(ip_network(lines[j]), ip_network(lines[i]))
                      /\ (ListRank(lines[i]) = 3 /\ ListRank(lines[j]) = 3)
                            => StrLess(lines[i], lines[j])

\* C4 witness: save_data has written an IPv6 prefix between two IPv4 prefixes,
\* the numerically larger one first.
C4_Witness ==
    /\ ioPc = "written"
    /\ ioWriter = "save_data"
    /\ TokenLines(ioWriter, ioFile) = <<"10.0.0.0/8", "2001:db8::/32", "9.0.0.0/8">>

\* C5: two writes of one set by one writer give the same sequence of token
\* lines, whatever order the set iterated in.
C5_Deterministic ==
    ioPc = "rewritten" => TokenLines(ioWriter, ioFile) = TokenLines(ioWriter, ioFile2)

\* The loader each writer's script reads its file back with.
OwnLoader(writer) ==
    CASE writer = "save_data" -> "load_existing_data"
      [] writer = "save_to_file" -> "load_existing_data"
      [] writer = "write_ips_to_file" -> "read_existing_ips"
      [] writer = "write_set_to_file" -> "read_file_to_set"

\* C6: a set written by a script's writer and read back by the same script's
\* loader comes back equal.
C6_RoundTrip ==
    (ioPc = "loaded" /\ ioFile.exists /\ ioLoader = OwnLoader(ioWriter)) => ioRead = ioSet

\* C7: no loader returns a line that is blank or starts with ';' or '#',
\* whichever writer wrote the file, and an absent file loads as the empty set.
C7_NoCommentLoaded ==
    ioPc = "loaded" =>
        /\ ~ioFile.exists => ioRead = {}
        /\ \A t \in ioRead : t # "" /\ ~StartsWith(t, ";") /\ ~StartsWith(t, "#")

\* ------------------------------------------- manager.py claims, continued
\* The plugin's result carries a key that is not in FILES_MAP.
HasUnknownKey(p) ==
    fetched[p].kind = "dict" /\ DOMAIN fetched[p].map \ KnownCategories # {}

\* C11: a key of a plugin result that is not a known category is dropped
\* silently: the baskets and the files stay the four known ones, no basket
\* holds a token that was not loaded or returned for its own key, every token
\* a plugin returned for a known key is merged even when the same result also
\* carries an unknown key, and the plugin counts as a source like any other.
C11_UnknownCategoryDropped ==
    (\E p \in Plugins : HasUnknownKey(p)) =>
        /\ DOMAIN aggregated_data = KnownCategories
        /\ DOMAIN files = FileNames
        /\ \A key \in KnownCategories :
              /\ aggregated_data[key] \subseteq loaded[key] \cup Contributions(key)
              /\ Contributions(key) \subseteq aggregated_data[key]
        /\ \A p \in Plugins : HasUnknownKey(p) => p \in Range(active_sources)

\* C11 witness: a run has ended in which one result carried a known and an
\* unknown key with the same token: the token is in drop.txt and in no other
\* file.
C11_Witness ==
    /\ pc = "done"
    /\ \E p \in Plugins :
          /\ HasUnknownKey(p)
          /\ "drop_ip" \in DOMAIN fetched[p].map
          /\ "6.6.6.6" \in fetched[p].map["drop_ip"]
    /\ "6.6.6.6" \in FileTokens(files["drop.txt"])
    /\ \A f \in FileNames \ {"drop.txt"} : "6.6.6.6" \notin FileTokens(files[f])

\* C12: the process exits with 0 on every run that completed all steps, and
\* it exits with a non-zero status only when the output directory could not
\* be created or no category could be written.
C12_ExitCode ==
    /\ pc = "done" => ExitCode = 0
    /\ ExitCode > 0 => (pc = "nodir" \/ wrote = {})

\* What line 89 iterates over for a plugin: the items of a truthy result.
ResultMap(p) == IF IsTruthy(fetched[p]) THEN fetched[p].map ELSE <<>>

\* The baskets after merging the results of the plugins in the given order.
RECURSIVE MergeAll(_, _)
MergeAll(agg, order) ==
    IF order = <<>> THEN agg
    ELSE MergeAll(MergeResult(agg, ResultMap(Head(order))), Tail(order))

\* C13: merge is commutative and idempotent: once the plugins have run, the
\* baskets are what merging their results into the loaded sets gives in any
\* order of the plugins, merging any plugin's result once more changes no
\* basket, and a basket whose loaded set already held everything returned for
\* it (as in a following run with the same outputs) is the loaded set.
C13_MergeCommutativeIdempotent ==
    PluginsFinished =>
        /\ \A order \in ListOrders(Plugins) : MergeAll(loaded, order) = aggregated_data
        /\ \A p \in Plugins : MergeResult(aggregated_data, ResultMap(p)) = aggregated_data
        /\ \A key \in KnownCategories :
              Contributions(key) \subseteq loaded[key] => aggregated_data[key] = loaded[key]

\* C13 witness: a second run has ended in which two plugins returned
\* different tokens for pass_ip, one of them already loaded from the file the
\* first run wrote.
C13_Witness ==
    /\ pc = "done"
    /\ run = 2
    /\ \E p, q \in Plugins :
          /\ fetched[p] = [kind |-> "dict", map |-> [k \in {"pass_ip"} |-> {"1.1.1.1"}]]
          /\ fetched[q] = [kind |-> "dict", map |-> [k \in {"pass_ip"} |-> {"1.1.1.0/24"}]]
    /\ "1.1.1.1" \in loaded["pass_ip"]
    /\ FileTokens(files["pass.txt"]) = loaded["pass_ip"] \cup {"1.1.1.0/24"}

\* ------------------------------------- writer and loader claims, continued
\* str.endswith
EndsWith(s, suffix) ==
    Len(s) >= Len(suffix) /\ SubSeq(s, Len(s) - Len(suffix) + 1, Len(s)) = suffix

IsCommentLine(line) == StartsWith(line, ";") \/ StartsWith(line, "#")

GoogleBody(url) ==
    CASE url = "googlebot.json" ->
            <<[ipv4Prefix |-> "8.8.4.0/24"], [ipv6Prefix |-> "2001:4860::/32"]>>
      [] url = "special-crawlers.json" -> <<[ipv4Prefix |-> "8.8.8.0/24"]>>
      [] url = "user-triggered-fetchers.json" -> <<[ipv4Prefix |-> "8.8.4.0/24"]>>
      [] url = "user-triggered-fetchers-google.json" -> <<>>

\* The lines of the text each Cloudflare endpoint serves.
CloudflareBody(key) ==
    CASE key = "cloudflare_v4" -> <<"1.1.1.0/24 ", "">>
      [] key = "cloudflare_v6" -> <<"2606:4700::/32">>

\* The lines of the AbuseIPDB plaintext blacklist.
AbuseBody == <<"6.6.6.6", "">>

\* The addresses and the domain lists of the GitHub meta document.
GithubIps == {"4.4.4.0/24"}

GithubDomains == {"github.blog"}

\* The prefixes of the AWS ip-ranges document.
AwsIps == {"3.3.3.0/24"}

\* Lines 113-115: the prefixes one Google document adds to new_ips.
PrefixesOf(body) ==
    {body[i].ipv6Prefix : i \in {j \in 1..Len(body) : "ipv6Prefix" \in DOMAIN body[j]}}
        \cup {body[i].ipv4Prefix : i \in {j \in 1..Len(body) : "ipv4Prefix" \in DOMAIN body[j]}}

\* set(line.strip() for line in text.splitlines() if line.strip())
StrippedLines(body) == {Strip(body[i]) : i \in 1..Len(body)} \ {""}

\* fetch_abuseipdb(existing_set): "down" stands for a missing key as well as
\* for a request that raises; both return existing_set.
fetch_abuseipdb(existing_set, up) ==
    IF up["abuseipdb"] = "up" THEN existing_set \cup StrippedLines(AbuseBody)
    ELSE existing_set

\* fetch_google(existing_set): one try/except per URL.
fetch_google(existing_set, up) ==
    existing_set
        \cup UNION {PrefixesOf(GoogleBody(url)) : url \in {u \in Range(GoogleUrls) : up[u] = "up"}}

\* fetch_cloudflare(existing_set): one try/except around both requests, the
\* IPv4 one first.
fetch_cloudflare(existing_set, up) ==
    LET v4 == StrippedLines(CloudflareBody("cloudflare_v4"))
        v6 == StrippedLines(CloudflareBody("cloudflare_v6"))
        new_ips ==
            IF up["cloudflare_v4"] # "up" THEN {}
            ELSE IF up["cloudflare_v6"] # "up" THEN v4
            ELSE v4 \cup v6
    IN  existing_set \cup new_ips

\* fetch_github(existing_ips, existing_domains): the pair returned.
fetch_github(existing_ips, existing_domains, up) ==
    IF up["github"] = "up"
    THEN <<existing_ips \cup GithubIps,
           existing_domains \cup ({"github.com", "githubusercontent.com"} \cup GithubDomains)>>
    ELSE <<existing_ips, existing_domains>>

\* fetch_aws(existing_set)
fetch_aws(existing_set, up) ==
    IF up["aws"] = "up" THEN existing_set \cup AwsIps ELSE existing_set

\* The outcomes the environment can give the requests to the given URLs in a
\* run in which `up` records the outcomes so far.
Outcomes(up, urls) ==
    {o \in [urls -> {"up", "down"}] :
        Cardinality({u \in AllUrls \ urls : up[u] = "down"})
            + Cardinality({u \in urls : o[u] = "down"}) <= MaxFetchFailures}

\* `up` with the outcomes o recorded.
Recorded(up, o) == [u \in AllUrls |-> IF u \in DOMAIN o THEN o[u] ELSE up[u]]

\* The I/O errors raised so far, and whether the updater may meet one more.
IoFaults == readFailures + writeFailures + dirFailures

MayFault == IoFaults < MaxUpdaterFaults

UpdInit ==
    /\ RunInit
    /\ IoOff
    /\ ScriptOff
    /\ upstream = NoRequests
    /\ uPc = "idle"
    /\ drop_ips = {}
    /\ pass_ips = {}
    /\ whitelist_domains = {}
    /\ blacklist_domains = {}
    /\ saved = 0

\* main, lines 180-187: ensure_output_dir (an os.makedirs error is caught and
\* leaves the directory missing), then the four load_existing_data calls;
\* k[key] is the number of lines read before the read raised.
UpdStart ==
    /\ uPc \in {"idle", "end"}
    /\ run < MaxRuns
    /\ \/ dirExists' = TRUE /\ UNCHANGED dirFailures
       \/ ~dirExists /\ MayFault /\ dirFailures' = dirFailures + 1 /\ UNCHANGED dirExists
    /\ \E k \in [KnownCategories -> 0..LongestFile] :
          /\ \A key \in KnownCategories : k[key] <= Len(files[FILES_MAP[key]].lines)
          /\ LET failed == {key \in KnownCategories :
                              k[key] < Len(files[FILES_MAP[key]].lines)}
             IN  /\ failed # {} => (Cardinality(failed) = 1 /\ MayFault /\ dirExists)
                 /\ readFailures' = readFailures + Cardinality(failed)
          /\ drop_ips' = load_existing_data(files["drop.txt"], k["drop_ip"])
          /\ pass_ips' = load_existing_data(files["pass.txt"], k["pass_ip"])
          /\ whitelist_domains' =
                load_existing_data(files["whitelist-domain.txt"], k["whitelist_domain"])
          /\ blacklist_domains' =
                load_existing_data(files["blacklist-domain.txt"], k["blacklist_domain"])
    /\ upstream' = NoRequests
    /\ saved' = 0
    /\ run' = run + 1
    /\ uPc' = "abuseipdb"
    /\ UNCHANGED <<files, writeFailures>>
    /\ UNCHANGED <<mgrVars, ioVars, scriptVars>>

\* main, line 191
FetchAbuseipdb ==
    /\ uPc = "abuseipdb"
    /\ \E o \in Outcomes(upstream, {"abuseipdb"}) :
          /\ upstream' = Recorded(upstream, o)
          /\ drop_ips' = fetch_abuseipdb(drop_ips, upstream')
    /\ uPc' = "google"
    /\ UNCHANGED <<pass_ips, whitelist_domains, blacklist_domains, saved>>
    /\ UNCHANGED <<runVars, ioVars, scriptVars>>

\* main, line 194
FetchGoogle ==
    /\ uPc = "google"
    /\ \E o \in Outcomes(upstream, Range(GoogleUrls)) :
          /\ upstream' = Recorded(upstream, o)
          /\ pass_ips' = fetch_google(pass_ips, upstream')
    /\ uPc' = "cloudflare"
    /\ UNCHANGED <<drop_ips, whitelist_domains, blacklist_domains, saved>>
    /\ UNCHANGED <<runVars, ioVars, scriptVars>>

\* main, line 195
FetchCloudflare ==
    /\ uPc = "cloudflare"
    /\ \E o \in Outcomes(upstream, {"cloudflare_v4", "cloudflare_v6"}) :
          /\ upstream' = Recorded(upstream, o)
          /\ pass_ips' = fetch_cloudflare(pass_ips, upstream')
    /\ uPc' = "github"
    /\ UNCHANGED <<drop_ips, whitelist_domains, blacklist_domains, saved>>
    /\ UNCHANGED <<runVars, ioVars, scriptVars>>

\* main, line 196
FetchGithub ==
    /\ uPc = "github"
    /\ \E o \in Outcomes(upstream, {"github"}) :
          /\ upstream' = Recorded(upstream, o)
          /\ pass_ips' = fetch_github(pass_ips, whitelist_domains, upstream')[1]
          /\ whitelist_domains' = fetch_github(pass_ips, whitelist_domains, upstream')[2]
    /\ uPc' = "aws"
    /\ UNCHANGED <<drop_ips, blacklist_domains, saved>>
    /\ UNCHANGED <<runVars, ioVars, scriptVars>>

\* main, lines 197-201: fetch_aws, then the two hardcoded AWS domains.
FetchAws ==
    /\ uPc = "aws"
    /\ \E o \in Outcomes(upstream, {"aws"}) :
          /\ upstream' = Recorded(upstream, o)
          /\ pass_ips' = fetch_aws(pass_ips, upstream')
    /\ whitelist_domains' = whitelist_domains \cup {"amazonaws.com", "aws.amazon.com"}
    /\ uPc' = "save"
    /\ UNCHANGED <<drop_ips, blacklist_domains, saved>>
    /\ UNCHANGED <<runVars, ioVars, scriptVars>>

\* list(data_set) in one of the orders the set can iterate in. sorted() of a
\* list of distinct strings does not depend on that order (SpecIO writes every
\* order), so save_to_file is given one.
RECURSIVE AnyOrder(_)
AnyOrder(data) ==
    IF data = {} THEN <<>>
    ELSE LET x == CHOOSE t \in data : TRUE IN <<x>> \o AnyOrder(data \ {x})

\* main, lines 208-211: the arguments of the n-th save_to_file call.
SaveCall(n) ==
    CASE n = 1 -> [file |-> "drop.txt", data |-> drop_ips,
                   header |-> "Source: AbuseIPDB High Confidence"]
      [] n = 2 -> [file |-> "pass.txt", data |-> pass_ips,
                   header |-> "Source: Google, Cloudflare, GitHub, AWS"]
      [] n = 3 -> [file |-> "whitelist-domain.txt", data |-> whitelist_domains,
                   header |-> "Source: GitHub, AWS Domains"]
      [] n = 4 -> [file |-> "blacklist-domain.txt", data |-> blacklist_domains,
                   header |-> "Source: Manual/Custom Blocklist"]

\* One save_to_file call of lines 208-211 that writes its file.
UpdSaveOk ==
    /\ uPc = "save"
    /\ dirExists
    /\ LET call == SaveCall(saved + 1)
       IN  files' = [files EXCEPT ![call.file] =
                        FileOf(save_to_file(call.file, AnyOrder(call.data), call.header,
                                            Timestamp(run)))]
    /\ saved' = saved + 1
    /\ uPc' = IF saved = 3 THEN "end" ELSE "save"
    /\ UNCHANGED <<upstream, drop_ips, pass_ips, whitelist_domains, blacklist_domains>>
    /\ UNCHANGED <<run, readFailures, writeFailures, dirExists, dirFailures>>
    /\ UNCHANGED <<mgrVars, ioVars, scriptVars>>

\* One save_to_file call whose open or write raises: the except clause prints
\* the error and main goes on. Without the directory open always raises and
\* the file is not created; otherwise the file is left as it was or holds the
\* first n lines.
UpdSaveFail ==
    /\ uPc = "save"
    /\ IF ~dirExists
       THEN UNCHANGED <<files, writeFailures>>
       ELSE /\ MayFault
            /\ writeFailures' = writeFailures + 1
            /\ LET call == SaveCall(saved + 1)
                   new == save_to_file(call.file, AnyOrder(call.data), call.header,
                                       Timestamp(run))
               IN  \/ UNCHANGED files
                   \/ \E n \in 0..(Len(new) - 1) :
                         files' = [files EXCEPT ![call.file] = FileOf(SubSeq(new, 1, n))]
    /\ saved' = saved + 1
    /\ uPc' = IF saved = 3 THEN "end" ELSE "save"
    /\ UNCHANGED <<upstream, drop_ips, pass_ips, whitelist_domains, blacklist_domains>>
    /\ UNCHANGED <<run, readFailures, dirExists, dirFailures>>
    /\ UNCHANGED <<mgrVars, ioVars, scriptVars>>

UpdNext ==
    \/ UpdStart
    \/ FetchAbuseipdb
    \/ FetchGoogle
    \/ FetchCloudflare
    \/ FetchGithub
    \/ FetchAws
    \/ UpdSaveOk
    \/ UpdSaveFail

SpecUpdater == UpdInit /\ [][UpdNext]_vars

\* ------------------------------------------------ fetch_ip_ranges.py extractors
\* extract_google_ips(urls): fetch_url returns None for a request that raises.
extract_google_ips(up) ==
    UNION {PrefixesOf(GoogleBody(url)) : url \in {u \in Range(GoogleUrls) : up[u] = "up"}}

\* extract_cloudflare_ips(): each endpoint on its own, '#' lines dropped.
extract_cloudflare_ips(up) ==
    UNION {{t \in StrippedLines(CloudflareBody(key)) : ~StartsWith(t, "#")} :
              key \in {k \in {"cloudflare_v4", "cloudflare_v6"} : up[k] = "up"}}

\* ---------------- scripts/fetch-cloudflare-ips.py, scripts/fetch-googlebot-ips.py
Scripts == {"cloudflare", "googlebot"}

\* write_to_file's default filename.
ScriptFile(sc) == IF sc = "cloudflare" THEN "cloudflare-ips.txt" ELSE "googlebot.txt"

\* The URLs a script requests.
ScriptUrls(sc) ==
    IF sc = "cloudflare" THEN {"cloudflare_v4", "cloudflare_v6"} ELSE Range(GoogleUrls)

\* [ip.strip() for ip in text.strip().split('\n') if ip.strip()]
StrippedList(body) ==
    LET NonEmpty(line) == line # ""
    IN  SelectSeq([i \in 1..Len(body) |-> Strip(body[i])], NonEmpty)

\* fetch-cloudflare-ips.py fetch_cloudflare_ips(): IPv4 then IPv6, one
\* try/except per URL.
fetch_cloudflare_ips(up) ==
    (IF up["cloudflare_v4"] = "up" THEN StrippedList(CloudflareBody("cloudflare_v4")) ELSE <<>>)
        \o (IF up["cloudflare_v6"] = "up" THEN StrippedList(CloudflareBody("cloudflare_v6"))
            ELSE <<>>)

\* fetch-googlebot-ips.py lines 26-30: the one prefix appended per entry.
PrefixesElif(body) ==
    {IF "ipv6Prefix" \in DOMAIN body[i] THEN body[i].ipv6Prefix ELSE body[i].ipv4Prefix :
        i \in {j \in 1..Len(body) :
                  "ipv6Prefix" \in DOMAIN body[j] \/ "ipv4Prefix" \in DOMAIN body[j]}}

\* fetch-googlebot-ips.py fetch_ip_ranges(): sorted(list(set(all_ips)))
fetch_ip_ranges(up) ==
    SortedStr(AnyOrder(
        UNION {PrefixesElif(GoogleBody(url)) : url \in {u \in Range(GoogleUrls) : up[u] = "up"}}))

\* fetch-cloudflare-ips.py write_to_file(ips)
write_to_file_cloudflare(ips, current_time) ==
    (<<"; Cloudflare IPs",
       "; Based on data crawling @ " \o current_time,
       "; Source: https://www.cloudflare.com/ips-v4/ and https://www.cloudflare.com/ips-v6/",
       "; Please re-check and verify",
       "">>
        \o ips) \o <<"", "; EOL">>

\* fetch-googlebot-ips.py write_to_file(ips); the Source line is shortened.
write_to_file_googlebot(ips, current_time) ==
    (<<"; Google bot IPs allowed by LHR",
       "; Based on data crawling @ " \o current_time,
       "; Source: https://developers.google.com/static/search/apis/ipranges/",
       "; Please re-check and verify">>
        \o ips) \o <<"; EOL">>

\* What the script's fetch function returns, and what its write_to_file writes.
FetchedRanges(sc, up) ==
    IF sc = "cloudflare" THEN fetch_cloudflare_ips(up) ELSE fetch_ip_ranges(up)

WrittenLines(sc, ips, current_time) ==
    IF sc = "cloudflare" THEN write_to_file_cloudflare(ips, current_time)
    ELSE write_to_file_googlebot(ips, current_time)

\* __main__ with write_to_file called whatever was fetched.
ShouldWrite_Always(ranges) == TRUE

\* __main__, `if ip_ranges:`
ShouldWrite(ranges) == ranges # <<>>

ScriptInit ==
    /\ RunInit
    /\ IoOff
    /\ UpdOff
    /\ script = "none"
    /\ outFiles = [f \in ScriptFiles |-> Absent]
    /\ ip_ranges = <<>>
    /\ exit_code = -1

\* One run of a script whose write, if any, succeeds: the requests get the
\* outcomes o, then __main__ writes the file and ends with status 0, or
\* writes nothing and calls exit(1).
RunScript ==
    /\ script # "off"
    /\ run < MaxRuns
    /\ \E sc \in Scripts :
          /\ \E o \in [ScriptUrls(sc) -> {"up", "down"}] :
                /\ upstream' = Recorded(NoRequests, o)
                /\ ip_ranges' = FetchedRanges(sc, upstream')
          /\ IF ShouldWrite(ip_ranges')
             THEN /\ outFiles' = [outFiles EXCEPT ![ScriptFile(sc)] =
                                      FileOf(WrittenLines(sc, ip_ranges', Timestamp(run + 1)))]
                  /\ exit_code' = 0
             ELSE /\ UNCHANGED outFiles
                  /\ exit_code' = 1
          /\ script' = sc
    /\ run' = run + 1
    /\ UNCHANGED <<uPc, drop_ips, pass_ips, whitelist_domains, blacklist_domains, saved>>
    /\ UNCHANGED <<files, readFailures, writeFailures, dirExists, dirFailures>>
    /\ UNCHANGED <<mgrVars, ioVars>>

\* One run of a script whose write_to_file raises: open failed (the file is
\* as it was) or a write failed (the file holds the first n lines); the
\* exception ends the process with status 1.
RunScriptWriteFails ==
    /\ script # "off"
    /\ run < MaxRuns
    /\ writeFailures < MaxWriteFailures
    /\ \E sc \in Scripts :
          /\ \E o \in [ScriptUrls(sc) -> {"up", "down"}] :
                /\ upstream' = Recorded(NoRequests, o)
                /\ ip_ranges' = FetchedRanges(sc, upstream')
          /\ ShouldWrite(ip_ranges')
          /\ LET new == WrittenLines(sc, ip_ranges', Timestamp(run + 1))
             IN  \/ UNCHANGED outFiles
                 \/ \E n \in 0..(Len(new) - 1) :
                       outFiles' = [outFiles EXCEPT ![ScriptFile(sc)] =
                                       FileOf(SubSeq(new, 1, n))]
          /\ script' = sc
    /\ exit_code' = 1
    /\ writeFailures' = writeFailures + 1
    /\ run' = run + 1
    /\ UNCHANGED <<uPc, drop_ips, pass_ips, whitelist_domains, blacklist_domains, saved>>
    /\ UNCHANGED <<files, readFailures, dirExists, dirFailures>>
    /\ UNCHANGED <<mgrVars, ioVars>>

ScriptNext == RunScript \/ RunScriptWriteFails

SpecScripts == ScriptInit /\ [][ScriptNext]_vars

\* ---------------------------------------------------- claims about one run
\* C15: in one run no category file is written before every plugin's load and
\* fetch() has returned or failed (manager.py) and before every fetch_*
\* function has returned (unified_updater.py); the categories are loaded only
\* by the step that starts a run, during the plugin loop a basket only grows
\* and during the writes no basket changes; each file is written by its own
\* save call only, at most once per run, and a run that reaches its end has
\* made all four save calls.
C15_BarrierAndOnce ==
    [][/\ \A key \in KnownCategories :
             files'[FILES_MAP[key]] # files[FILES_MAP[key]] =>
                \/ /\ pc = "save"
                   /\ pending = {}
                   /\ \A q \in Plugins : fetched[q] # NotRun
                   /\ key = Categories[saveIdx]
                   /\ key \notin wrote
                \/ /\ uPc = "save"
                   /\ \A u \in AllUrls : upstream[u] # "unknown"
                   /\ FILES_MAP[key] = SaveCall(saved + 1).file
                   /\ saved' = saved + 1
       /\ (loaded' # loaded \/ run' # run) => (Stopped \/ uPc \in {"idle", "end"})
       /\ pc = "plugins" =>
             \A key \in KnownCategories : aggregated_data[key] \subseteq aggregated_data'[key]
       /\ pc = "save" => aggregated_data' = aggregated_data
       /\ uPc = "save" =>
             UNCHANGED <<drop_ips, pass_ips, whitelist_domains, blacklist_domains>>
       /\ (pc' = "done" /\ pc # "done") => wrote' = KnownCategories
       /\ (uPc' = "end" /\ uPc # "end") => saved' = 4
      ]_vars

\* C15 witness: the first category of a run has been written after one plugin
\* raised and another returned tokens, the other categories still to come.
C15_Witness ==
    /\ pc = "save"
    /\ wrote = {"drop_ip"}
    /\ files["drop.txt"].exists
    /\ files["drop.txt"].lines[1] = "; Updated at: " \o Timestamp(run)
    /\ \E q \in Plugins : fetched[q].kind = "raise"
    /\ \E q \in Plugins : fetched[q].kind = "dict"

\* ------------------------------------------------------ claims about sources
\* What the endpoints that answered in this step serve.
ServedBy(urls) ==
    UNION {IF u \in Range(GoogleUrls) THEN PrefixesOf(GoogleBody(u))
           ELSE StrippedLines(CloudflareBody(u)) :
              u \in {v \in urls : upstream'[v] = "up"}}

C17_NeverWritesEmpty ==
    [][run' # run =>
          /\ \A f \in ScriptFiles :
                outFiles'[f] # outFiles[f] => (ip_ranges' # <<>> /\ f = ScriptFile(script'))
          /\ (\A u \in ScriptUrls(script') : upstream'[u] = "down") => ip_ranges' = <<>>
          /\ ip_ranges' = <<>> => (outFiles' = outFiles /\ exit_code' = 1)
          /\ exit_code' = 0 =>
                /\ ip_ranges' # <<>>
                /\ outFiles'[ScriptFile(script')].exists
                /\ Range(ip_ranges') \subseteq Range(outFiles'[ScriptFile(script')].lines)
      ]_vars

\* C17 witness: the Cloudflare script has fetched nothing in the second run,
\* both of its requests having failed, has ended with status 1, and the file
\* the first run wrote is still there with its ranges.
C17_Witness ==
    /\ run = 2
    /\ script = "cloudflare"
    /\ \A u \in ScriptUrls("cloudflare") : upstream[u] = "down"
    /\ ip_ranges = <<>>
    /\ exit_code = 1
    /\ outFiles["cloudflare-ips.txt"] =
          FileOf(write_to_file_cloudflare(<<"1.1.1.0/24", "2606:4700::/32">>, Timestamp(1)))

====
